---- MODULE Spec2Model ----
(***************************************************************************)
(* Model of the Nimbus-to-Obsidian tooling:                                *)
(*   scripts/cleanup-obsidian.py    clean_markdown, process_file, main     *)
(*   scripts/convert-to-obsidian.py sanitize_filename, process_note, main  *)
(*                                                                         *)
(* Text is a sequence of tokens.  A token is either one markup tag, kept   *)
(* whole (it starts with "<", ends with ">" and holds no other "<" or      *)
(* ">"), or one character of ordinary text.  Every regular expression of   *)
(* clean_markdown either matches a tag whole or reads it as a character    *)
(* that is or is not "<" / ">", so each substitution is modelled by what   *)
(* it does to the token sequence.                                          *)
(***************************************************************************)
EXTENDS Integers, Sequences, FiniteSets

(***************************************************************************)
(* Tokens                                                                  *)
(***************************************************************************)
NL == "\n"
\* the backquote character (a string of the module cannot hold it)
Backquote == "bq"

StrongOpen == {"<strong>"}
StrongClose == {"</strong>"}
BOpen == {"<b>"}
BClose == {"</b>"}
EmOpen == {"<em>"}
EmClose == {"</em>"}
IOpen == {"<i>"}
IClose == {"</i>"}
CodeOpen == {"<code>"}
CodeClose == {"</code>"}
UOpen == {"<u>"}
UClose == {"</u>"}
BrTags == {"<br>"}
HrTags == {"<hr>"}
LabelSpanOpen == {"<span class=\"syntax-control-label\">"}
SpanOpen == LabelSpanOpen \cup {"<span>"}
SpanClose == {"</span>"}
BookmarkAnchor == {"<a href=\"x\" class=\"nimbus-bookmark\">"}
ContentsAnchor == {"<a href=\"x\" style=\"display:contents\">"}
HrefAnchor == BookmarkAnchor \cup ContentsAnchor \cup {"<a href=\"x\">"}
AnchorOpen == HrefAnchor \cup {"<a>"}
AnchorClose == {"</a>"}
PngData == "data:image/png;base64,A"
SvgData == "data:image/svg+xml;base64,A"
ImgSrc == {"<img src=\"x\"/>", "<img src=\"data:image/png;base64,A\"/>",
           "<img src=\"data:image/svg+xml;base64,A\"/>"}
ImgTags == ImgSrc \cup {"<img/>"}
TableTags == {"<table>", "</table>"}
TheadTags == {"<thead>", "</thead>"}
TbodyTags == {"<tbody>", "</tbody>"}
TrOpen == {"<tr>"}
TrClose == {"</tr>"}
CellOpen == {"<td>", "<th>", "<thead>"}
CellClose == {"</td>", "</th>"}
DivOpen == {"<div>"}
DivClose == {"</div>"}
POpen == {"<p>"}
PClose == {"</p>"}

Tags ==
  StrongOpen \cup StrongClose \cup BOpen \cup BClose \cup EmOpen \cup EmClose
  \cup IOpen \cup IClose \cup CodeOpen \cup CodeClose \cup UOpen \cup UClose
  \cup BrTags \cup HrTags \cup SpanOpen \cup SpanClose \cup AnchorOpen
  \cup AnchorClose \cup ImgTags \cup TableTags \cup TheadTags \cup TbodyTags
  \cup TrOpen \cup TrClose \cup CellOpen \cup CellClose \cup DivOpen
  \cup DivClose \cup POpen \cup PClose

\* \s : the whitespace characters of the model
WS == {" ", "\t", NL}

\* every character token: text that is not a tag
Chars ==
  {"x", " ", "\t", NL, "|", "-", "*", Backquote, "!", "[", "]", "(", ")",
   PngData, SvgData}

Tok == Tags \cup Chars

\* [^<] : a token that holds no "<"
NotLt == Chars
\* [^)] : a token that holds no ")"
NotRParen == Tok \ {")"}
\* the text after "data:image/svg+xml;base64," / "data:image/" is not empty
SvgDataToks == {SvgData}
DataToks == {PngData, SvgData}

\* the value of the href attribute of an anchor, as text
Href(t) == <<"x">>

\* the value of the src attribute of an image, as text
Src(t) ==
  IF t = "<img src=\"data:image/png;base64,A\"/>" THEN <<PngData>>
  ELSE IF t = "<img src=\"data:image/svg+xml;base64,A\"/>" THEN <<SvgData>>
  ELSE <<"x">>

(***************************************************************************)
(* re.sub: leftmost, non-overlapping matches, each replaced.               *)
(* ends[i] is the last index of the match that starts at i (0: none),      *)
(* reps[i] is what replaces that match.                                    *)
(***************************************************************************)
Sub(s, ends, reps) ==
  LET n == Len(s)
      f[i \in 1..(n + 1)] ==
        IF i > n THEN <<>>
        ELSE IF ends[i] >= i THEN reps[i] \o f[ends[i] + 1]
        ELSE <<s[i]>> \o f[i + 1]
  IN f[1]

\* the first index k >= i whose token is not in S (Len(s)+1 when none):
\* where a greedy S* that starts at i stops
Skip(s, i, S) ==
  CHOOSE k \in i..(Len(s) + 1) :
    /\ (k = Len(s) + 1 \/ s[k] \notin S)
    /\ \A j \in i..(k - 1) : s[j] \in S

\* s[i] is the token t
At(s, i, t) == i >= 1 /\ i <= Len(s) /\ s[i] = t

\* s[i] is a token of S
In(s, i, S) == i >= 1 /\ i <= Len(s) /\ s[i] \in S

\* one token of S replaced by r
SubTok(s, S, r) ==
  Sub(s, [i \in 1..Len(s) |-> IF s[i] \in S THEN i ELSE 0],
         [i \in 1..Len(s) |-> r])

\* Open Mid* Close: the end of the match that starts at i, or 0
EndWrapped(s, i, Open, Mid, Close) ==
  IF s[i] \in Open /\ In(s, Skip(s, i + 1, Mid), Close)
  THEN Skip(s, i + 1, Mid) ELSE 0

\* Open ([^<]*) Close -> pre \1 post
SubWrapped(s, Open, Close, pre, post) ==
  Sub(s, [i \in 1..Len(s) |-> EndWrapped(s, i, Open, NotLt, Close)],
         [i \in 1..Len(s) |->
            pre \o SubSeq(s, i + 1, Skip(s, i + 1, NotLt) - 1) \o post])

\* Open Mid* Close -> nothing
SubEmpty(s, Open, Mid, Close) ==
  Sub(s, [i \in 1..Len(s) |-> EndWrapped(s, i, Open, Mid, Close)],
         [i \in 1..Len(s) |-> <<>>])

(***************************************************************************)
(* clean_markdown, rule by rule                                            *)
(***************************************************************************)

\* content.startswith("---")
StartsWithDashes(s) == Len(s) >= 3 /\ s[1] = "-" /\ s[2] = "-" /\ s[3] = "-"

\* "---" at index j
DashesAt(s, j) == At(s, j, "-") /\ At(s, j + 1, "-") /\ At(s, j + 2, "-")

\* content.split("---", 2) has three parts: a second "---" follows the first
HasFrontmatter(s) ==
  StartsWithDashes(s) /\ \E j \in 4..Len(s) : DashesAt(s, j)

\* the index of the second "---" (split takes the occurrences left to right)
SecondDashes(s) ==
  CHOOSE j \in 4..Len(s) :
    DashesAt(s, j) /\ \A k \in 4..(j - 1) : ~DashesAt(s, k)

\* frontmatter = f"---{parts[1]}---\n"
Frontmatter(s) ==
  IF HasFrontmatter(s)
  THEN <<"-", "-", "-">> \o SubSeq(s, 4, SecondDashes(s) - 1)
       \o <<"-", "-", "-", NL>>
  ELSE <<>>

\* body = parts[2], or the whole content
Body(s) ==
  IF HasFrontmatter(s) THEN SubSeq(s, SecondDashes(s) + 3, Len(s)) ELSE s

\* <a href="path"><img src="path" /></a> -> ![](path)
EndLinkedImage(s, i) ==
  IF s[i] \in HrefAnchor /\ In(s, Skip(s, i + 1, WS), ImgSrc)
     /\ In(s, Skip(s, Skip(s, i + 1, WS) + 1, WS), AnchorClose)
  THEN Skip(s, Skip(s, i + 1, WS) + 1, WS) ELSE 0

LinkedImages(s) ==
  Sub(s, [i \in 1..Len(s) |-> EndLinkedImage(s, i)],
         [i \in 1..Len(s) |-> <<"!", "[", "]", "(">> \o Href(s[i]) \o <<")">>])

\* <img src="path" /> -> ![](path)
StandaloneImages(s) ==
  Sub(s, [i \in 1..Len(s) |-> IF s[i] \in ImgSrc THEN i ELSE 0],
         [i \in 1..Len(s) |-> <<"!", "[", "]", "(">> \o Src(s[i]) \o <<")">>])

\* one pass of the <strong>/<b> loop
BoldPass(s) ==
  SubWrapped(SubWrapped(s, StrongOpen, StrongClose, <<"*", "*">>, <<"*", "*">>),
             BOpen, BClose, <<"*", "*">>, <<"*", "*">>)

\* for _ in range(3)
Bold(s) == BoldPass(BoldPass(BoldPass(s)))

\* one pass of the <em>/<i> loop
ItalicPass(s) ==
  SubWrapped(SubWrapped(s, EmOpen, EmClose, <<"*">>, <<"*">>),
             IOpen, IClose, <<"*">>, <<"*">>)

\* for _ in range(3)
Italic(s) == ItalicPass(ItalicPass(ItalicPass(s)))

\* one pass of the <code> loop
CodePass(s) == SubWrapped(s, CodeOpen, CodeClose, <<Backquote>>, <<Backquote>>)

\* for _ in range(3), then the remaining <code> tags are dropped
Code(s) ==
  SubTok(CodePass(CodePass(CodePass(s))), CodeOpen \cup CodeClose, <<>>)

\* <u>..</u> keeps its content, then the remaining <u> tags are dropped
Underline(s) ==
  SubTok(SubWrapped(s, UOpen, UClose, <<>>, <<>>), UOpen \cup UClose, <<>>)

\* <br> -> newline, <hr> -> newline --- newline
Breaks(s) ==
  SubTok(SubTok(s, BrTags, <<NL>>), HrTags, <<NL, "-", "-", "-", NL>>)

\* <span class="syntax-control-label">...</span> removed with its content
LabelSpans(s) == SubEmpty(s, LabelSpanOpen, NotLt, SpanClose)

\* nimbus bookmark anchors (no space before </a>), then every empty
\* <a href=...></a>
EmptyAnchors(s) ==
  SubEmpty(SubEmpty(SubEmpty(s, BookmarkAnchor, {}, AnchorClose),
                    ContentsAnchor, {}, AnchorClose),
           HrefAnchor, WS, AnchorClose)

\* table, thead, tbody wrappers; rows and cells made pipe-delimited
Tables(s) ==
  SubTok(SubTok(SubTok(SubTok(SubTok(SubTok(SubTok(s,
    TableTags, <<NL>>),
    TheadTags, <<>>),
    TbodyTags, <<>>),
    TrOpen, <<NL, "|", " ">>),
    TrClose, <<" ", "|">>),
    CellOpen, <<>>),
    CellClose, <<" ", "|", " ">>)

\* one pass of the span loop
SpanPass(s) == SubWrapped(s, SpanOpen, SpanClose, <<>>, <<>>)

\* empty spans, for _ in range(5), then the remaining span tags
Spans(s) ==
  SubTok(SpanPass(SpanPass(SpanPass(SpanPass(SpanPass(
           SubEmpty(s, SpanOpen, WS, SpanClose)))))),
         SpanOpen \cup SpanClose, <<>>)

\* <div>..</div> keeps its content and a newline, other div tags -> newline
Divs(s) ==
  SubTok(SubWrapped(s, DivOpen, DivClose, <<>>, <<NL>>),
         DivOpen \cup DivClose, <<NL>>)

\* <p>..</p> keeps its content and two newlines, other p tags -> newline
Paragraphs(s) ==
  SubTok(SubWrapped(s, POpen, PClose, <<>>, <<NL, NL>>),
         POpen \cup PClose, <<NL>>)

\* <a href="url">text</a> -> [text](url): the text is [^<]+, not empty
EndLink(s, i) ==
  IF s[i] \in HrefAnchor /\ Skip(s, i + 1, NotLt) > i + 1
     /\ In(s, Skip(s, i + 1, NotLt), AnchorClose)
  THEN Skip(s, i + 1, NotLt) ELSE 0

Links(s) ==
  Sub(s, [i \in 1..Len(s) |-> EndLink(s, i)],
         [i \in 1..Len(s) |->
            <<"[">> \o SubSeq(s, i + 1, Skip(s, i + 1, NotLt) - 1)
            \o <<"]", "(">> \o Href(s[i]) \o <<")">>])

\* any remaining empty anchor, then the orphan img tags
Orphans(s) ==
  SubTok(SubEmpty(s, AnchorOpen, WS, AnchorClose), ImgTags, <<>>)

\* ![](data:image/...) with the data tokens of D: the end of the match
EndDataImage(s, i, D) ==
  IF At(s, i, "!") /\ At(s, i + 1, "[") /\ At(s, i + 2, "]")
     /\ At(s, i + 3, "(") /\ In(s, i + 4, D)
     /\ At(s, Skip(s, i + 5, NotRParen), ")")
  THEN Skip(s, i + 5, NotRParen) ELSE 0

DataImagesOf(s, D) ==
  Sub(s, [i \in 1..Len(s) |-> EndDataImage(s, i, D)],
         [i \in 1..Len(s) |-> <<>>])

\* inline base64 svg images, then every inline data image
DataImages(s) == DataImagesOf(DataImagesOf(s, SvgDataToks), DataToks)

\* | \s* | \s* |  : the end of the match
EndPipes3(s, i) ==
  IF s[i] = "|" /\ At(s, Skip(s, i + 1, WS), "|")
     /\ At(s, Skip(s, Skip(s, i + 1, WS) + 1, WS), "|")
  THEN Skip(s, Skip(s, i + 1, WS) + 1, WS) ELSE 0

\* | \s* |  : the end of the match
EndPipes2(s, i) ==
  IF s[i] = "|" /\ At(s, Skip(s, i + 1, WS), "|")
  THEN Skip(s, i + 1, WS) ELSE 0

\* multiple consecutive pipes
Pipes(s) ==
  LET t == Sub(s, [i \in 1..Len(s) |-> EndPipes3(s, i)],
                  [i \in 1..Len(s) |-> <<"|">>])
  IN Sub(t, [i \in 1..Len(t) |-> EndPipes2(t, i)],
            [i \in 1..Len(t) |-> <<"|">>])

\* the last newline among s[a..b], or 0: where a greedy \s* followed by \n
\* ends after backtracking
LastNL(s, a, b) ==
  IF \E k \in a..b : s[k] = NL
  THEN CHOOSE k \in a..b : s[k] = NL /\ \A j \in (k + 1)..b : s[j] # NL
  ELSE 0

\* \n \s* | \s* | \s* \n : the end of the match
EndPipeLine2(s, i) ==
  IF s[i] = NL /\ At(s, Skip(s, i + 1, WS), "|")
     /\ At(s, Skip(s, Skip(s, i + 1, WS) + 1, WS), "|")
  THEN LET p == Skip(s, Skip(s, i + 1, WS) + 1, WS)
       IN LastNL(s, p + 1, Skip(s, p + 1, WS) - 1)
  ELSE 0

\* \n \s* | \s* \n : the end of the match
EndPipeLine1(s, i) ==
  IF s[i] = NL /\ At(s, Skip(s, i + 1, WS), "|")
  THEN LET p == Skip(s, i + 1, WS)
       IN LastNL(s, p + 1, Skip(s, p + 1, WS) - 1)
  ELSE 0

\* lines that are just pipes and whitespace
PipeLines(s) ==
  LET t == Sub(s, [i \in 1..Len(s) |-> EndPipeLine2(s, i)],
                  [i \in 1..Len(s) |-> <<NL>>])
  IN Sub(t, [i \in 1..Len(t) |-> EndPipeLine1(t, i)],
            [i \in 1..Len(t) |-> <<NL>>])

\* \n{4,} -> three newlines
CollapseNewlines(s) ==
  Sub(s, [i \in 1..Len(s) |->
            IF s[i] = NL /\ Skip(s, i, {NL}) - i >= 4
            THEN Skip(s, i, {NL}) - 1 ELSE 0],
         [i \in 1..Len(s) |-> <<NL, NL, NL>>])

\* the blanks a line can end with (a line holds no newline)
Blank == WS \ {NL}

\* [line.rstrip() for line in body.split('\n')], joined again
StripTrailing(s) ==
  Sub(s, [i \in 1..Len(s) |->
            IF s[i] \in Blank
               /\ (Skip(s, i, Blank) = Len(s) + 1 \/ At(s, Skip(s, i, Blank), NL))
            THEN Skip(s, i, Blank) - 1 ELSE 0],
         [i \in 1..Len(s) |-> <<>>])

\* body.lstrip('\n')
LStripNL(s) == SubSeq(s, Skip(s, 1, {NL}), Len(s))

\* body.rstrip('\n')
RStripNL(s) ==
  IF \E k \in 1..Len(s) : s[k] # NL
  THEN SubSeq(s, 1, CHOOSE k \in 1..Len(s) :
                      s[k] # NL /\ \A j \in (k + 1)..Len(s) : s[j] = NL)
  ELSE <<>>

\* collapse newline runs, strip the lines, strip leading newlines, end with
\* a single newline
Whitespace(s) ==
  RStripNL(LStripNL(StripTrailing(CollapseNewlines(s)))) \o <<NL>>

\* the substitution rules, in the order of the source; each rule reads the
\* text the one before it wrote
Rules(s) ==
  CHOOSE r \in
    {Whitespace(t19) : t19 \in {PipeLines(t18) : t18 \in {Pipes(t17) : t17 \in
    {DataImages(t16) : t16 \in {Orphans(t15) : t15 \in {Links(t14) : t14 \in
    {Paragraphs(t13) : t13 \in {Divs(t12) : t12 \in {Spans(t11) : t11 \in
    {Tables(t10) : t10 \in {EmptyAnchors(t9) : t9 \in {LabelSpans(t8) : t8 \in
    {Breaks(t7) : t7 \in {Underline(t6) : t6 \in {Code(t5) : t5 \in
    {Italic(t4) : t4 \in {Bold(t3) : t3 \in {StandaloneImages(t2) : t2 \in
    {LinkedImages(t1) : t1 \in {s}}}}}}}}}}}}}}}}}}}} : TRUE

\* the frontmatter reattached before the rules run
clean_markdown_header_in_rules(text) ==
  Rules(Frontmatter(text) \o Body(text))

\* return frontmatter + body
clean_markdown(text) == Frontmatter(text) \o Rules(Body(text))

(***************************************************************************)
(* Bounds and inputs                                                       *)
(***************************************************************************)
MaxTextLen == 7
MaxPipeLen == 5
MaxEmphLen == 5
MaxHeaderLen == 3
MaxBodyLen == 3
NumFiles == 2
NumNotes == 2

\* the sequences over A of length at most n
SeqsUpTo(A, n) == UNION {[1..k -> A] : k \in 0..n}

\* plain text with blank lines
TextInputs == SeqsUpTo({"x", " ", NL}, MaxTextLen)

\* table residue: pipes between text
PipeInputs == SeqsUpTo({"|", " ", "x", NL}, MaxPipeLen)

\* inline emphasis, nested or not, balanced or not
EmphInputs == SeqsUpTo({"<b>", "</b>", "<i>", "</i>", "x"}, MaxEmphLen)

\* documents that start with "---", a header, "---" and a body
HeaderInputs ==
  {<<"-", "-", "-">> \o h \o <<"-", "-", "-">> \o b :
     h \in SeqsUpTo({"x", "-", "<b>", NL}, MaxHeaderLen),
     b \in SeqsUpTo({"x", NL, "</b>"}, MaxBodyLen)}

Inputs == TextInputs \cup PipeInputs \cup EmphInputs \cup HeaderInputs

\* the markdown files of the vault, and what they may hold before the run
Files == 1..NumFiles
FileTexts ==
  {<<"x", NL>>, <<"x">>, <<"<b>", "x", "</b>", NL>>, <<"x", " ", NL, NL>>}

(***************************************************************************)
(* State                                                                   *)
(***************************************************************************)
VARIABLES
  content, cleaned, recleaned, cpc,
  disk, disk0, fpc, fcontent, fcleaned, fret, wasread, wopened,
  modified, skipped, errors, total_changes, collected,
  hasHtml, title, titleIsStr, vault, vault0, pc, safe_title, md_file, counter,
  lock, result, created, firstfree,
  cur, success, failed, failed_notes, aborted, finished

cleanVars == <<content, cleaned, recleaned, cpc>>
fileVars == <<disk, disk0, fpc, fcontent, fcleaned, fret, wasread, wopened>>
mainVars == <<modified, skipped, errors, total_changes, collected>>
inputVars == <<hasHtml, title, titleIsStr, vault0>>
noteVars ==
  <<inputVars, vault, pc, safe_title, md_file, counter, lock, result, created,
    firstfree, cur, success, failed, failed_notes, aborted, finished>>
vars == <<cleanVars, fileVars, mainVars, noteVars>>

\* no call of clean_markdown under way
CleanIdle ==
  /\ content = <<>>
  /\ cleaned = <<>>
  /\ recleaned = <<>>
  /\ cpc = "idle"

\* no cleanup batch under way
CleanupIdle ==
  /\ disk = [f \in {} |-> <<>>]
  /\ disk0 = disk
  /\ fpc = disk
  /\ fcontent = disk
  /\ fcleaned = disk
  /\ fret = disk
  /\ wasread = disk
  /\ wopened = disk
  /\ modified = 0
  /\ skipped = 0
  /\ errors = 0
  /\ total_changes = 0
  /\ collected = {}

\* no conversion under way
ConvertIdle ==
  /\ hasHtml = [n \in {} |-> FALSE]
  /\ title = hasHtml
  /\ titleIsStr = hasHtml
  /\ vault0 = hasHtml
  /\ vault = hasHtml
  /\ pc = hasHtml
  /\ safe_title = hasHtml
  /\ md_file = hasHtml
  /\ counter = hasHtml
  /\ lock = 0
  /\ result = hasHtml
  /\ created = hasHtml
  /\ firstfree = hasHtml
  /\ cur = 0
  /\ success = 0
  /\ failed = 0
  /\ failed_notes = <<>>
  /\ aborted = FALSE
  /\ finished = FALSE

(***************************************************************************)
(* clean_markdown applied to a document, and again to its own output       *)
(***************************************************************************)
InitClean ==
  /\ content \in Inputs
  /\ cleaned = <<>>
  /\ recleaned = <<>>
  /\ cpc = "input"
  /\ CleanupIdle
  /\ ConvertIdle

CleanOnce ==
  /\ cpc = "input"
  /\ cleaned' = clean_markdown(content)
  /\ cpc' = "cleaned"
  /\ UNCHANGED <<content, recleaned, fileVars, mainVars, noteVars>>

CleanAgain ==
  /\ cpc = "cleaned"
  /\ recleaned' = clean_markdown(cleaned)
  /\ cpc' = "recleaned"
  /\ UNCHANGED <<content, cleaned, fileVars, mainVars, noteVars>>

NextClean == CleanOnce \/ CleanAgain

SpecClean == InitClean /\ [][NextClean]_vars

(***************************************************************************)
(* cleanup-obsidian.py: main and process_file                              *)
(***************************************************************************)
max_workers == 8

\* what process_file returns: (changed, msg, changes); msg only tells the
\* error from the rest
NoReturn == [changed |-> FALSE, changes |-> -2]
Unchanged == [changed |-> FALSE, changes |-> 0]
Error == [changed |-> FALSE, changes |-> -1]

\* abs(len(original_content) - len(cleaned_content))
Changes(a, b) == IF Len(a) >= Len(b) THEN Len(a) - Len(b) ELSE Len(b) - Len(a)

\* the comparison left out: every file is written back
Differs_always(a, b) == TRUE

\* cleaned_content != original_content
Differs(a, b) == a # b

\* the proper prefixes of s: what a write that fails part-way may leave
Partial(s) == {SubSeq(s, 1, k) : k \in 0..(Len(s) - 1)}

\* the worker threads that hold a job
Running == {f \in Files : fpc[f] \notin {"queued", "done"}}

InitCleanup ==
  /\ CleanIdle
  /\ ConvertIdle
  /\ disk \in [Files -> FileTexts]
  /\ disk0 = disk
  /\ fpc = [f \in Files |-> "queued"]
  /\ fcontent = [f \in Files |-> <<>>]
  /\ fcleaned = [f \in Files |-> <<>>]
  /\ fret = [f \in Files |-> NoReturn]
  /\ wasread = [f \in Files |-> FALSE]
  /\ wopened = [f \in Files |-> FALSE]
  /\ modified = 0
  /\ skipped = 0
  /\ errors = 0
  /\ total_changes = 0
  /\ collected = {}

\* executor.submit: a free worker picks the job up
StartFile(f) ==
  /\ fpc[f] = "queued"
  /\ Cardinality(Running) < max_workers
  /\ fpc' = [fpc EXCEPT ![f] = "started"]
  /\ UNCHANGED <<cleanVars, noteVars, disk, disk0, fcontent, fcleaned, fret, wasread, wopened, mainVars>>

\* the except branch of process_file
ReturnError(f) ==
  /\ fret' = [fret EXCEPT ![f] = Error]
  /\ fpc' = [fpc EXCEPT ![f] = "done"]

\* open(md_file, 'r') ... f.read()
ReadFile(f) ==
  /\ fpc[f] = "started"
  /\ fcontent' = [fcontent EXCEPT ![f] = disk[f]]
  /\ wasread' = [wasread EXCEPT ![f] = TRUE]
  /\ fpc' = [fpc EXCEPT ![f] = "read"]
  /\ UNCHANGED <<cleanVars, noteVars, disk, disk0, fcleaned, fret, wopened, mainVars>>

\* the open or the read raises
ReadFileFails(f) ==
  /\ fpc[f] = "started"
  /\ ReturnError(f)
  /\ UNCHANGED <<cleanVars, noteVars, disk, disk0, fcontent, fcleaned, wasread, wopened, mainVars>>

\* cleaned_content = clean_markdown(content), and the comparison
Transform(f) ==
  /\ fpc[f] = "read"
  /\ fcleaned' = [fcleaned EXCEPT ![f] = clean_markdown(fcontent[f])]
  /\ IF Differs(fcleaned'[f], fcontent[f])
     THEN /\ fpc' = [fpc EXCEPT ![f] = "differs"]
          /\ fret' = fret
     ELSE /\ fpc' = [fpc EXCEPT ![f] = "done"]
          /\ fret' = [fret EXCEPT ![f] = Unchanged]
  /\ UNCHANGED <<cleanVars, noteVars, disk, disk0, fcontent, wasread, wopened, mainVars>>

\* clean_markdown raises
TransformFails(f) ==
  /\ fpc[f] = "read"
  /\ ReturnError(f)
  /\ UNCHANGED <<cleanVars, noteVars, disk, disk0, fcontent, fcleaned, wasread, wopened, mainVars>>

\* open(md_file, 'w'): the file is truncated
OpenForWrite(f) ==
  /\ fpc[f] = "differs"
  /\ disk' = [disk EXCEPT ![f] = <<>>]
  /\ wopened' = [wopened EXCEPT ![f] = TRUE]
  /\ fpc' = [fpc EXCEPT ![f] = "opened"]
  /\ UNCHANGED <<cleanVars, noteVars, disk0, fcontent, fcleaned, fret, wasread, mainVars>>

\* open(md_file, 'w') raises: nothing is truncated
OpenForWriteFails(f) ==
  /\ fpc[f] = "differs"
  /\ ReturnError(f)
  /\ UNCHANGED <<cleanVars, noteVars, disk, disk0, fcontent, fcleaned, wasread, wopened, mainVars>>

\* f.write(cleaned_content), the file closed, and the return
WriteFile(f) ==
  /\ fpc[f] = "opened"
  /\ disk' = [disk EXCEPT ![f] = fcleaned[f]]
  /\ fret' = [fret EXCEPT ![f] =
                [changed |-> TRUE, changes |-> Changes(fcontent[f], fcleaned[f])]]
  /\ fpc' = [fpc EXCEPT ![f] = "done"]
  /\ UNCHANGED <<cleanVars, noteVars, disk0, fcontent, fcleaned, wasread, wopened, mainVars>>

\* the write or the close raises: part of the text may have reached the file
WriteFileFails(f) ==
  /\ fpc[f] = "opened"
  /\ \E part \in Partial(fcleaned[f]) : disk' = [disk EXCEPT ![f] = part]
  /\ ReturnError(f)
  /\ UNCHANGED <<cleanVars, noteVars, disk0, fcontent, fcleaned, wasread, wopened, mainVars>>

\* one turn of the as_completed loop of main
Collect(f) ==
  /\ fpc[f] = "done"
  /\ f \notin collected
  /\ collected' = collected \cup {f}
  /\ IF fret[f].changes = -1
     THEN /\ errors' = errors + 1
          /\ UNCHANGED <<modified, skipped, total_changes>>
     ELSE IF fret[f].changed
     THEN /\ modified' = modified + 1
          /\ total_changes' = total_changes + fret[f].changes
          /\ UNCHANGED <<skipped, errors>>
     ELSE /\ skipped' = skipped + 1
          /\ UNCHANGED <<modified, errors, total_changes>>
  /\ UNCHANGED <<cleanVars, noteVars, fileVars>>

NextCleanup ==
  \E f \in Files :
    \/ StartFile(f)
    \/ ReadFile(f)
    \/ ReadFileFails(f)
    \/ Transform(f)
    \/ TransformFails(f)
    \/ OpenForWrite(f)
    \/ OpenForWriteFails(f)
    \/ WriteFile(f)
    \/ WriteFileFails(f)
    \/ Collect(f)

SpecCleanup == InitCleanup /\ [][NextCleanup]_vars

\* the batch is over: every future has been collected
CleanupDone == collected = Files

(***************************************************************************)
(* convert-to-obsidian.py: sanitize_filename                               *)
(* A title is a sequence of characters.                                    *)
(***************************************************************************)
max_length == 200

\* [<>:"/\\|?*]
InvalidChars == {"<", ">", ":", "\"", "/", "\\", "|", "?", "*"}

\* [\x00-\x1f\x7f]
ControlChars == {"\t", NL, "\r"}

\* [-\s] once the control characters are gone
DashOrSpace == {"-", " "}

\* invalid characters become dashes
ReplaceInvalid(s) ==
  [i \in 1..Len(s) |-> IF s[i] \in InvalidChars THEN "-" ELSE s[i]]

\* control characters are dropped
RemoveControl(s) == SubTok(s, ControlChars, <<>>)

\* every run of dashes and spaces becomes one space
CollapseDashes(s) ==
  Sub(s, [i \in 1..Len(s) |->
            IF s[i] \in DashOrSpace THEN Skip(s, i, DashOrSpace) - 1 ELSE 0],
         [i \in 1..Len(s) |-> <<" ">>])

\* str.strip()
Strip(s) ==
  IF \A i \in 1..Len(s) : s[i] \in WS THEN <<>>
  ELSE SubSeq(s, Skip(s, 1, WS),
              CHOOSE k \in 1..Len(s) :
                s[k] \notin WS /\ \A j \in (k + 1)..Len(s) : s[j] \in WS)

\* s.rsplit(' ', 1)[0]
BeforeLastSpace(s) ==
  IF \E k \in 1..Len(s) : s[k] = " "
  THEN SubSeq(s, 1, (CHOOSE k \in 1..Len(s) :
                       s[k] = " " /\ \A j \in (k + 1)..Len(s) : s[j] # " ") - 1)
  ELSE s

\* sanitized[:max_length].rsplit(' ', 1)[0] when too long
Truncate(s) ==
  IF Len(s) > max_length THEN BeforeLastSpace(SubSeq(s, 1, max_length)) ELSE s

sanitize_filename(name) ==
  LET sanitized ==
        Truncate(Strip(CollapseDashes(RemoveControl(ReplaceInvalid(name)))))
  IN IF sanitized = <<>> THEN <<"Untitled">> ELSE sanitized

(***************************************************************************)
(* convert-to-obsidian.py: process_note and the loop of main, for the      *)
(* notes of one destination folder                                         *)
(***************************************************************************)
Notes == 1..NumNotes

\* the titles the metadata may give
Titles == {<<"a">>, <<"a", "/">>, <<"a", "-", "1">>}

Digit == <<"0", "1", "2", "3", "4", "5", "6", "7", "8", "9">>

\* str(counter)
Dec(k) ==
  IF k < 10 THEN <<Digit[k + 1]>>
  ELSE <<Digit[(k \div 10) + 1], Digit[(k % 10) + 1]>>

\* f"{safe_title}.md" (k = 0) and f"{base_name}-{counter}.md"
MdName(base, k) ==
  base \o (IF k = 0 THEN <<>> ELSE <<"-">> \o Dec(k)) \o <<".md">>

\* what a file of the folder holds
PreFile == [kind |-> "pre", by |-> 0]
EmptyFile == [kind |-> "empty", by |-> 0]
PartialFile(n) == [kind |-> "partial", by |-> n]
FinalFile(n) == [kind |-> "final", by |-> n]

\* the files the folder may hold before the run
VaultInputs ==
  {[p \in S |-> PreFile] :
     S \in {{}, {MdName(<<"a">>, 0)}, {MdName(<<"a">>, 0), MdName(<<"a">>, 1)}}}

\* path.exists()
Exists(p) == p \in DOMAIN vault

\* the folder with path p holding c
WithFile(v, p, c) == [q \in DOMAIN v \cup {p} |-> IF q = p THEN c ELSE v[q]]

HasHtmlAt(n) == hasHtml[n]

\* note_dirs: the directories that hold a note.html
note_dirs == SelectSeq([i \in 1..NumNotes |-> i], HasHtmlAt)

\* total = len(note_dirs)
total == Len(note_dirs)

InitConvert ==
  /\ CleanIdle
  /\ CleanupIdle
  /\ hasHtml \in [Notes -> BOOLEAN]
  /\ titleIsStr \in [Notes -> BOOLEAN]
  /\ title \in [Notes -> Titles \cup {<<>>}]
  /\ \A n \in Notes : (title[n] = <<>>) <=> ~(hasHtml[n] /\ titleIsStr[n])
  /\ \A n \in Notes : ~hasHtml[n] => titleIsStr[n]
  /\ vault0 \in VaultInputs
  /\ vault = vault0
  /\ pc = [n \in Notes |-> "idle"]
  /\ safe_title = [n \in Notes |-> <<>>]
  /\ md_file = [n \in Notes |-> <<>>]
  /\ counter = [n \in Notes |-> 0]
  /\ lock = 0
  /\ result = [n \in Notes |-> "none"]
  /\ created = [n \in Notes |-> {}]
  /\ firstfree = [n \in Notes |-> TRUE]
  /\ cur = 1
  /\ success = 0
  /\ failed = 0
  /\ failed_notes = <<>>
  /\ aborted = FALSE
  /\ finished = FALSE

mainLoopVars == <<cur, success, failed, failed_notes, aborted, finished>>

\* return False, msg / return True, title
Return(n, r) ==
  /\ result' = [result EXCEPT ![n] = r]
  /\ pc' = [pc EXCEPT ![n] = "done"]

\* an exception leaves process_note
Raise(n) == pc' = [pc EXCEPT ![n] = "raised"]

\* the note.html check; the metadata is read (title holds what it gave)
Enter(n) ==
  /\ pc[n] = "idle"
  /\ IF hasHtml[n]
     THEN /\ pc' = [pc EXCEPT ![n] = "sanitize"]
          /\ result' = result
     ELSE Return(n, "no_html")
  /\ UNCHANGED <<cleanVars, fileVars, mainVars, inputVars, vault, safe_title,
                 md_file, counter, lock, created, firstfree, mainLoopVars>>

\* safe_title = sanitize_filename(title): re.sub raises on a title that is
\* no string
Sanitize(n) ==
  /\ pc[n] = "sanitize"
  /\ IF titleIsStr[n]
     THEN /\ safe_title' = [safe_title EXCEPT ![n] = sanitize_filename(title[n])]
          /\ pc' = [pc EXCEPT ![n] = "mkdir"]
     ELSE /\ Raise(n)
          /\ safe_title' = safe_title
  /\ UNCHANGED <<cleanVars, fileVars, mainVars, inputVars, vault, md_file,
                 counter, lock, result, created, firstfree, mainLoopVars>>

\* out_folder.mkdir(parents=True, exist_ok=True)
Mkdir(n) ==
  /\ pc[n] = "mkdir"
  /\ pc' = [pc EXCEPT ![n] = "lock"]
  /\ UNCHANGED <<cleanVars, fileVars, mainVars, inputVars, vault, safe_title,
                 md_file, counter, lock, result, created, firstfree, mainLoopVars>>

\* mkdir raises
MkdirFails(n) ==
  /\ pc[n] = "mkdir"
  /\ Raise(n)
  /\ UNCHANGED <<cleanVars, fileVars, mainVars, inputVars, vault, safe_title,
                 md_file, counter, lock, result, created, firstfree, mainLoopVars>>

\* the lock never taken into account: the reservation without the with block
CanAcquire_unlocked(n) == TRUE

\* _file_lock is free
CanAcquire(n) == lock = 0

\* with _file_lock: md_file = out_folder / f"{safe_title}.md"; counter = 1
Acquire(n) ==
  /\ pc[n] = "lock"
  /\ CanAcquire(n)
  /\ lock' = n
  /\ md_file' = [md_file EXCEPT ![n] = MdName(safe_title[n], 0)]
  /\ counter' = [counter EXCEPT ![n] = 1]
  /\ pc' = [pc EXCEPT ![n] = "probe"]
  /\ UNCHANGED <<cleanVars, fileVars, mainVars, inputVars, vault, safe_title,
                 result, created, firstfree, mainLoopVars>>

\* while md_file.exists(): the next candidate
Probe(n) ==
  /\ pc[n] = "probe"
  /\ IF Exists(md_file[n])
     THEN /\ md_file' = [md_file EXCEPT ![n] = MdName(safe_title[n], counter[n])]
          /\ counter' = [counter EXCEPT ![n] = counter[n] + 1]
          /\ pc' = pc
     ELSE /\ pc' = [pc EXCEPT ![n] = "touch"]
          /\ UNCHANGED <<md_file, counter>>
  /\ UNCHANGED <<cleanVars, fileVars, mainVars, inputVars, vault, safe_title,
                 lock, result, created, firstfree, mainLoopVars>>

\* md_file.touch(), and the lock released
Touch(n) ==
  /\ pc[n] = "touch"
  /\ vault' = IF Exists(md_file[n]) THEN vault
              ELSE WithFile(vault, md_file[n], EmptyFile)
  /\ created' = [created EXCEPT ![n] =
                   IF Exists(md_file[n]) THEN {} ELSE {md_file[n]}]
  /\ firstfree' = [firstfree EXCEPT ![n] =
                     \A k \in 0..(counter[n] - 2) : Exists(MdName(safe_title[n], k))]
  /\ lock' = 0
  /\ pc' = [pc EXCEPT ![n] = "convert"]
  /\ UNCHANGED <<cleanVars, fileVars, mainVars, inputVars, safe_title, md_file,
                 counter, result, mainLoopVars>>

\* touch raises; the with statement releases the lock
TouchFails(n) ==
  /\ pc[n] = "touch"
  /\ lock' = 0
  /\ Raise(n)
  /\ UNCHANGED <<cleanVars, fileVars, mainVars, inputVars, vault, safe_title,
                 md_file, counter, result, created, firstfree, mainLoopVars>>

\* convert_html_to_markdown returns True: pandoc wrote temp_dir/<note_id>.md
Convert(n) ==
  /\ pc[n] = "convert"
  /\ pc' = [pc EXCEPT ![n] = "write"]
  /\ UNCHANGED <<cleanVars, fileVars, mainVars, inputVars, vault, safe_title,
                 md_file, counter, lock, result, created, firstfree, mainLoopVars>>

\* convert_html_to_markdown returns False: pandoc failed, timed out or raised
ConvertFails(n) ==
  /\ pc[n] = "convert"
  /\ Return(n, "pandoc_failed")
  /\ UNCHANGED <<cleanVars, fileVars, mainVars, inputVars, vault, safe_title,
                 md_file, counter, lock, created, firstfree, mainLoopVars>>

\* the frontmatter is built and final_content written to md_file
WriteNote(n) ==
  /\ pc[n] = "write"
  /\ vault' = WithFile(vault, md_file[n], FinalFile(n))
  /\ pc' = [pc EXCEPT ![n] = "assets"]
  /\ UNCHANGED <<cleanVars, fileVars, mainVars, inputVars, safe_title, md_file,
                 counter, lock, result, created, firstfree, mainLoopVars>>

\* reading temp_md, building the frontmatter or opening md_file raises (the
\* file is as it was), or the write raises (part of the text is in the file)
WriteNoteFails(n) ==
  /\ pc[n] = "write"
  /\ \/ vault' = vault
     \/ vault' = WithFile(vault, md_file[n], PartialFile(n))
  /\ Return(n, "write_error")
  /\ UNCHANGED <<cleanVars, fileVars, mainVars, inputVars, safe_title, md_file,
                 counter, lock, created, firstfree, mainLoopVars>>

\* the assets are copied; return True
CopyAssets(n) ==
  /\ pc[n] = "assets"
  /\ Return(n, "ok")
  /\ UNCHANGED <<cleanVars, fileVars, mainVars, inputVars, vault, safe_title,
                 md_file, counter, lock, created, firstfree, mainLoopVars>>

\* copying an asset raises: reported as a write error too
CopyAssetsFails(n) ==
  /\ pc[n] = "assets"
  /\ Return(n, "asset_error")
  /\ UNCHANGED <<cleanVars, fileVars, mainVars, inputVars, vault, safe_title,
                 md_file, counter, lock, created, firstfree, mainLoopVars>>

\* process_note called for every note at once, as a parallel walker would
NextAlloc ==
  \E n \in Notes :
    \/ Enter(n)
    \/ Sanitize(n)
    \/ Mkdir(n)
    \/ MkdirFails(n)
    \/ Acquire(n)
    \/ Probe(n)
    \/ Touch(n)
    \/ TouchFails(n)
    \/ Convert(n)
    \/ ConvertFails(n)
    \/ WriteNote(n)
    \/ WriteNoteFails(n)
    \/ CopyAssets(n)
    \/ CopyAssetsFails(n)

SpecAlloc == InitConvert /\ [][NextAlloc]_vars

\* main is at note_dir n of its loop
Turn(n) == ~aborted /\ cur <= total /\ note_dirs[cur] = n

processVars ==
  <<cleanVars, fileVars, mainVars, inputVars, vault, pc, safe_title, md_file,
    counter, lock, result, created, firstfree>>

\* ok, msg = process_note(...): the counters, and the next note
MainReturn ==
  /\ cur <= total
  /\ pc[note_dirs[cur]] = "done"
  /\ IF result[note_dirs[cur]] = "ok"
     THEN /\ success' = success + 1
          /\ UNCHANGED <<failed, failed_notes>>
     ELSE /\ failed' = failed + 1
          /\ failed_notes' = Append(failed_notes, note_dirs[cur])
          /\ success' = success
  /\ cur' = cur + 1
  /\ UNCHANGED <<processVars, aborted, finished>>

\* process_note raised: nothing in main catches it, the finally clause
\* removes the temp directory and the process ends with the traceback
MainRaise ==
  /\ ~aborted
  /\ cur <= total
  /\ pc[note_dirs[cur]] = "raised"
  /\ aborted' = TRUE
  /\ UNCHANGED <<processVars, cur, success, failed, failed_notes, finished>>

\* the loop is over: the summary is printed and main returns
MainFinish ==
  /\ cur = total + 1
  /\ ~finished
  /\ finished' = TRUE
  /\ UNCHANGED <<processVars, cur, success, failed, failed_notes, aborted>>

\* main calls process_note for one note after the other
NextConvert ==
  \/ \E n \in Notes : Turn(n) /\ Enter(n)
  \/ \E n \in Notes : Turn(n) /\ Sanitize(n)
  \/ \E n \in Notes : Turn(n) /\ Mkdir(n)
  \/ \E n \in Notes : Turn(n) /\ MkdirFails(n)
  \/ \E n \in Notes : Turn(n) /\ Acquire(n)
  \/ \E n \in Notes : Turn(n) /\ Probe(n)
  \/ \E n \in Notes : Turn(n) /\ Touch(n)
  \/ \E n \in Notes : Turn(n) /\ TouchFails(n)
  \/ \E n \in Notes : Turn(n) /\ Convert(n)
  \/ \E n \in Notes : Turn(n) /\ ConvertFails(n)
  \/ \E n \in Notes : Turn(n) /\ WriteNote(n)
  \/ \E n \in Notes : Turn(n) /\ WriteNoteFails(n)
  \/ \E n \in Notes : Turn(n) /\ CopyAssets(n)
  \/ \E n \in Notes : Turn(n) /\ CopyAssetsFails(n)
  \/ MainReturn
  \/ MainRaise
  \/ MainFinish

SpecConvert == InitConvert /\ [][NextConvert]_vars

(***************************************************************************)
(* Properties of clean_markdown (SpecClean)                                *)
(***************************************************************************)

\* C1: the cleanup pipeline is idempotent: cleaning the output of
\* clean_markdown again changes nothing.
C1_Idempotent == cpc = "recleaned" => recleaned = cleaned

EmphasisTags ==
  StrongOpen \cup StrongClose \cup BOpen \cup BClose
  \cup EmOpen \cup EmClose \cup IOpen \cup IClose
BoldPairs == {<<"<b>", "</b>">>, <<"<strong>", "</strong>">>}
ItalicPairs == {<<"<i>", "</i>">>, <<"<em>", "</em>">>}

\* s is outer[1] inner[1] text inner[2] outer[2], the text plain and not empty
IsNested(s, outer, inner) ==
  /\ Len(s) >= 5
  /\ s[1] = outer[1] /\ s[2] = inner[1]
  /\ s[Len(s) - 1] = inner[2] /\ s[Len(s)] = outer[2]
  /\ \A i \in 3..(Len(s) - 2) : s[i] = "x"

\* bold around italic, or italic around bold
TwoLevelEmphasis(s) ==
  \E b \in BoldPairs, i \in ItalicPairs : IsNested(s, b, i) \/ IsNested(s, i, b)

\* C2: a two-level nesting of bold and italic is cleaned to the inner text
\* between plain markers of both levels, and no <b>, <strong>, <i> or <em>
\* tag remains.
C2_NestedEmphasisConverges ==
  (cpc # "input" /\ TwoLevelEmphasis(content)) =>
     /\ \A i \in 1..Len(cleaned) : cleaned[i] \notin EmphasisTags
     /\ cleaned = <<"*", "*", "*">> \o SubSeq(content, 3, Len(content) - 2)
                  \o <<"*", "*", "*", NL>>

\* the document starts with "---" and holds another "---" further on
StartsWithHeader(s) ==
  /\ Len(s) >= 6
  /\ \A i \in 1..3 : s[i] = "-"
  /\ \E j \in 4..(Len(s) - 2) : \A i \in j..(j + 2) : s[i] = "-"

\* the last index of the header block: of its closing "---", the first one
\* after the opening
HeaderEnd(s) ==
  2 + CHOOSE j \in 4..(Len(s) - 2) :
        /\ \A i \in j..(j + 2) : s[i] = "-"
        /\ \A k \in 4..(j - 1) : \E i \in k..(k + 2) : s[i] # "-"

\* C6: when the input starts with a "---" ... "---" header block, the output
\* starts with that block, token for token, whatever the block and the body
\* hold.
C6_FrontmatterPreserved ==
  (cpc # "input" /\ StartsWithHeader(content)) =>
     /\ Len(cleaned) >= HeaderEnd(content)
     /\ SubSeq(cleaned, 1, HeaderEnd(content))
          = SubSeq(content, 1, HeaderEnd(content))

\* a header with markup in it, and a body the rules change
C6_Witness ==
  /\ cpc = "cleaned"
  /\ content = <<"-", "-", "-", "<b>", "x", "-", "-", "-", "</b>", NL, NL>>
  /\ cleaned = <<"-", "-", "-", "<b>", "x", "-", "-", "-", NL, "</b>", NL>>

\* C7: the output of clean_markdown ends with exactly one newline.
C7_OneTrailingNewline ==
  cpc # "input" =>
     /\ Len(cleaned) >= 1
     /\ cleaned[Len(cleaned)] = NL
     /\ Len(cleaned) >= 2 => cleaned[Len(cleaned) - 1] # NL

\* the output without the frontmatter clean_markdown put in front of it
OutputBody == SubSeq(cleaned, Len(Frontmatter(content)) + 1, Len(cleaned))

\* C8: the output body never holds more than two consecutive blank lines,
\* that is, four or more consecutive newlines.
C8_AtMostTwoBlankLines ==
  cpc # "input" =>
     \A i \in 1..(Len(OutputBody) - 3) :
        \E k \in i..(i + 3) : OutputBody[k] # NL

(***************************************************************************)
(* Properties of the cleanup batch (SpecCleanup)                           *)
(***************************************************************************)

\* C4: a file whose processing fails is reported as an error and left as it
\* was before the run, and every file gets exactly one outcome, so the three
\* counters add up to the number of files.
C4_BatchResilience ==
  /\ \A f \in Files : fret[f] = Error => disk[f] = disk0[f]
  /\ modified + skipped + errors = Cardinality(collected)
  /\ CleanupDone => modified + skipped + errors = NumFiles

\* what cleaning the text read from f gives
Expected(f) == clean_markdown(fcontent[f])

\* no write, no truncating open, and the outcome unchanged when cleaning
\* changes nothing; must tells that the file was read and that cleaning what
\* was read changes it
NoWriteWhenEqual(f, must) ==
  /\ wopened[f] => must
  /\ (fpc[f] = "done" /\ wasread[f] /\ ~must /\ fret[f] # Error) =>
        /\ fret[f] = Unchanged
        /\ ~wopened[f]
        /\ disk[f] = disk0[f]
  /\ fret[f] = Unchanged => (wasread[f] /\ ~must /\ ~wopened[f])

\* C9 as stated: process_file writes if and only if the cleaned text differs
\* from the text read; when they differ the file ends up holding the cleaned
\* text and the outcome is modified.
C9_NoOpDetection ==
  \A f \in Files :
     LET expected == Expected(f)
         must == wasread[f] /\ expected # fcontent[f]
     IN /\ NoWriteWhenEqual(f, must)
        /\ (fpc[f] = "done" /\ must) =>
              /\ disk[f] = expected
              /\ fret[f].changed

\* C9, amended: when the texts differ a write is attempted; the outcome is
\* modified exactly when it succeeds, and then the file holds the cleaned
\* text; otherwise the outcome is error.
C9_NoOpDetectionUnlessWriteFails ==
  \A f \in Files :
     LET expected == Expected(f)
         must == wasread[f] /\ expected # fcontent[f]
     IN /\ NoWriteWhenEqual(f, must)
        /\ (fpc[f] = "done" /\ must) => (fret[f].changed \/ fret[f] = Error)
        /\ fret[f].changed =>
              /\ must
              /\ wopened[f]
              /\ disk[f] = expected

\* one file rewritten, another read and left alone, both counted
C9_Witness ==
  /\ CleanupDone
  /\ \E f, g \in Files :
       /\ fret[f].changed /\ disk[f] # disk0[f]
       /\ fret[g] = Unchanged /\ ~wopened[g]
  /\ modified = 1
  /\ skipped = 1

(***************************************************************************)
(* Properties of the converter (SpecAlloc, SpecConvert)                    *)
(***************************************************************************)

\* note n holds a reserved name
Reserved(n) ==
  \/ pc[n] \in {"convert", "write", "assets"}
  \/ pc[n] = "done" /\ result[n] # "no_html"

\* the final write of note n has been made
Written(n) == pc[n] = "assets" \/ result[n] \in {"ok", "asset_error"}

\* C3: under any interleaving of process_note calls the reserved paths are
\* pairwise distinct, each the first free one of title.md, title-1.md, ...;
\* no file that existed before the reservation is chosen, and no file is
\* overwritten by another note's final write.
C3_DistinctReservedNames ==
  /\ \A n, m \in Notes :
        (n # m /\ Reserved(n) /\ Reserved(m)) => md_file[n] # md_file[m]
  /\ \A n \in Notes : Reserved(n) =>
        /\ md_file[n] = MdName(sanitize_filename(title[n]), counter[n] - 1)
        /\ firstfree[n]
        /\ created[n] = {md_file[n]}
        /\ md_file[n] \notin DOMAIN vault0
  /\ \A p \in DOMAIN vault0 : vault[p] = PreFile
  /\ \A n \in Notes : Written(n) => vault[md_file[n]] = FinalFile(n)

\* two notes of different titles that sanitize to the same one, in a folder
\* that held files already, both converted
C3_Witness ==
  /\ DOMAIN vault0 # {}
  /\ \E n, m \in Notes :
       /\ n # m
       /\ title[n] # title[m]
       /\ safe_title[n] = safe_title[m]
       /\ result[n] = "ok" /\ result[m] = "ok"
       /\ counter[n] > 1 /\ counter[m] > 1

\* C5: a note that fails never aborts the batch: it is counted as failed,
\* the loop goes on, and success + failed = total at the end.
C5_FailureNeverAborts ==
  /\ ~aborted
  /\ success + failed = cur - 1
  /\ Len(failed_notes) = failed
  /\ finished => success + failed = total

\* the run is over
RunOver == finished \/ aborted

\* the file name of note n carries a numeric suffix
Suffixed(n) == \E k \in 1..99 : md_file[n] = MdName(safe_title[n], k)

\* C10: after the run every note that has a note.html has left exactly one
\* file in the folder; it is an empty placeholder when the conversion or the
\* final write failed; a later note of the same sanitized title has a suffix.
C10_OneFilePerNote ==
  RunOver =>
     \A n \in Notes : hasHtml[n] =>
        /\ Cardinality(created[n]) = 1
        /\ created[n] \subseteq DOMAIN vault
        /\ result[n] \in {"pandoc_failed", "write_error"} =>
              vault[md_file[n]] = EmptyFile
        /\ \A m \in Notes :
              (m < n /\ hasHtml[m] /\ safe_title[m] = safe_title[n]) => Suffixed(n)
====
